---- MODULE Spec2Model ----
(***************************************************************************)
(* A model of szip (simpl-zip): the archive engine SimplZip (zip / unzip,  *)
(* main and fallback implementation) and the credential codec of           *)
(* CryptoUtils.  Strings are sequences of one-character strings, so that   *)
(* split, parseInt, startsWith and path normalisation are computed the way *)
(* the JavaScript runtime computes them.  Paths are POSIX paths            *)
(* (path.sep = "/").                                                       *)
(***************************************************************************)
EXTENDS Integers, Sequences, FiniteSets, TLC

(***************************************************************************)
(* Bounds of the model.                                                    *)
(***************************************************************************)
\* number of entries of a hand-crafted (adversarial) archive
MaxEntries == 2
\* length of the entry name of a hand-crafted one-entry archive
MaxNameLen == 5

\* number of descendants of a source directory
MaxTreeItems == 2

\* length of the paths handed to the path predicate called on its own
MaxPathLen == 4

\* the rate limiter: the largest maxOps and windowMs, the last clock value and
\* the number of calls followed
MaxOps == 2
MaxWindowMs == 2
MaxTime == 3
MaxCalls == 4

\* length of the short strings handed to sanitizePath
MaxSanLen == 4

\* size in bytes of the file hashed chunk by chunk, and the largest chunk
MaxFileSize == 6
MaxChunk == 3

(***************************************************************************)
(* JavaScript strings.                                                     *)
(***************************************************************************)
\* String.prototype.startsWith
StartsWith(s, pre) ==
  /\ Len(pre) <= Len(s)
  /\ SubSeq(s, 1, Len(pre)) = pre

\* index of the first occurrence of the non-empty string m in s, 0 if none
IndexOf(s, m) ==
  LET hits == { i \in 1..(Len(s) - Len(m) + 1) :
                  s[i] = m[1] /\ SubSeq(s, i, i + Len(m) - 1) = m }
  IN  IF hits = {} THEN 0 ELSE CHOOSE i \in hits : \A j \in hits : i <= j

\* String.prototype.includes
Includes(s, m) == IndexOf(s, m) # 0

\* String.prototype.split with a non-empty separator string: the list of the
\* pieces between the occurrences of the separator, scanned left to right
RECURSIVE Split(_, _)
Split(s, sep) ==
  LET i == IndexOf(s, sep)
  IN  IF i = 0 THEN << s >>
      ELSE << SubSeq(s, 1, i - 1) >> \o Split(SubSeq(s, i + Len(sep), Len(s)), sep)

\* the concatenation of the strings of a list
RECURSIVE Concat(_)
Concat(ss) == IF ss = << >> THEN << >> ELSE Head(ss) \o Concat(Tail(ss))

\* Array.prototype.join with a separator string
RECURSIVE Join(_, _)
Join(ss, sep) ==
  IF ss = << >> THEN << >>
  ELSE IF Len(ss) = 1 THEN ss[1]
  ELSE ss[1] \o sep \o Join(Tail(ss), sep)

DecDigits == << "0", "1", "2", "3", "4", "5", "6", "7", "8", "9" >>
HexDigits == << "0", "1", "2", "3", "4", "5", "6", "7", "8", "9",
                "a", "b", "c", "d", "e", "f" >>

\* the decimal rendering of a non-negative integer (template literal `${n}`)
RECURSIVE NatToString(_)
NatToString(n) ==
  IF n < 10 THEN << DecDigits[n + 1] >>
  ELSE NatToString(n \div 10) \o << DecDigits[(n % 10) + 1] >>

NumberToString(n) == IF n < 0 THEN << "-" >> \o NatToString(0 - n) ELSE NatToString(n)

\* the value of a character as a digit of the radix, -1 when it is none
DigitValue(c, radix) ==
  LET lower == { i \in 1..16 : HexDigits[i] = c }
      upper == { i \in 11..16 : << "A", "B", "C", "D", "E", "F" >>[i - 10] = c }
      v == IF lower # {} THEN (CHOOSE i \in lower : TRUE) - 1
           ELSE IF upper # {} THEN (CHOOSE i \in upper : TRUE) - 1
           ELSE -1
  IN  IF v < radix THEN v ELSE -1

\* white space as StringToNumber / parseInt strips it
WhiteSpace == { " ", "\t", "\n" }

RECURSIVE TrimStart(_)
TrimStart(s) ==
  IF s # << >> /\ Head(s) \in WhiteSpace THEN TrimStart(Tail(s)) ELSE s

\* the value of the longest prefix of s made of digits of the radix, given the
\* value acc of the digits read so far; seen tells whether a digit was read
RECURSIVE DigitsPrefix(_, _, _, _)
DigitsPrefix(s, radix, acc, seen) ==
  IF s = << >> \/ DigitValue(Head(s), radix) < 0
  THEN [nan |-> ~seen, val |-> acc]
  ELSE DigitsPrefix(Tail(s), radix, acc * radix + DigitValue(Head(s), radix), TRUE)

NaN == [nan |-> TRUE, val |-> 0]

\* the global parseInt(string) with no radix argument: leading white space is
\* skipped, a sign is read, a 0x / 0X prefix selects radix 16, then the longest
\* prefix of digits is converted and whatever follows is ignored; NaN when no
\* digit can be read
parseInt(str) ==
  LET t    == TrimStart(str)
      neg  == t # << >> /\ Head(t) = "-"
      u    == IF t # << >> /\ Head(t) \in { "-", "+" } THEN Tail(t) ELSE t
      hex  == Len(u) >= 2 /\ u[1] = "0" /\ u[2] \in { "x", "X" }
      r    == IF hex THEN DigitsPrefix(SubSeq(u, 3, Len(u)), 16, 0, FALSE)
              ELSE DigitsPrefix(u, 10, 0, FALSE)
  IN  IF r.nan THEN NaN
      ELSE [nan |-> FALSE, val |-> IF neg THEN 0 - r.val ELSE r.val]

(***************************************************************************)
(* CryptoUtils: the credential codec.                                      *)
(***************************************************************************)
\* an optional argument: undefined, or a string
Undefined == [some |-> FALSE, v |-> << >>]
Some(s) == [some |-> TRUE, v |-> s]
\* JavaScript truthiness of an optional string: undefined and "" are falsy
Truthy(o) == o.some /\ o.v # << >>

\* the algorithm tag 'pbkdf2_sha512'
Tag == << "p", "b", "k", "d", "f", "2", "_", "s", "h", "a", "5", "1", "2" >>
Dollar == << "$" >>
\* the default work factor of generatePasswordHash
DefaultIterations == 100000
\* the work factor verifyPassword reads from an empty iteration field: '100000'
VerifyDefaultIterations == << "1", "0", "0", "0", "0", "0" >>

\* the characters strings of the model are made of, in a fixed order
CharTable ==
  << "0", "1", "2", "3", "4", "5", "6", "7", "8", "9",
     "a", "b", "c", "d", "e", "f", "x", "o", "p", "s", "w",
     "A", "B", "P", "X", "$", " ", "+", "-", ".", "/", "!", "@", "_", ":" >>

\* two hex digits naming a character; the digit f is never used
CharCode(c) ==
  LET i == CHOOSE k \in 1..Len(CharTable) : CharTable[k] = c
  IN  << HexDigits[(i \div 15) + 1], HexDigits[(i % 15) + 1] >>

EncodeString(s) == Concat([i \in 1..Len(s) |-> CharCode(s[i])])

\* crypto.pbkdf2Sync(password, salt, iterations, 64, 'sha512').toString('hex'),
\* idealised: a deterministic, collision-free function of (password, salt,
\* iterations) with a lower-case hex value; it throws unless iterations is an
\* integer >= 1
pbkdf2Sync(password, salt, iterations) ==
  IF iterations.nan \/ iterations.val < 1
  THEN [threw |-> TRUE, hex |-> << >>]
  ELSE [threw |-> FALSE,
        hex |-> EncodeString(NatToString(iterations.val)) \o << "f", "f" >>
                \o EncodeString(salt) \o << "f", "f" >> \o EncodeString(password)]

\* generatePasswordHash keeping the password itself in the digest field
generatePasswordHash_Plaintext(password, salt, iterations, randomHex) ==
  LET saltToUse == IF Truthy(salt) THEN salt.v ELSE randomHex
  IN  [threw |-> FALSE,
       value |-> Tag \o Dollar \o NumberToString(iterations) \o Dollar
                 \o saltToUse \o Dollar \o password]

\* CryptoUtils.generatePasswordHash(password, salt?, iterations); randomHex is
\* the value crypto.randomBytes(32).toString('hex') yields in this call
generatePasswordHash(password, salt, iterations, randomHex) ==
  LET saltToUse == IF Truthy(salt) THEN salt.v ELSE randomHex
      hash == pbkdf2Sync(password, saltToUse, [nan |-> FALSE, val |-> iterations])
  IN  [threw |-> hash.threw,
       value |-> Tag \o Dollar \o NumberToString(iterations) \o Dollar
                 \o saltToUse \o Dollar \o hash.hex]

\* verifyPassword that parses the stored string and never compares the digest
verifyPassword_NoCompare(password, hash) ==
  LET parts == Split(hash, Dollar)
  IN  Len(parts) = 4 /\ parts[1] = Tag

\* CryptoUtils.verifyPassword(password, hash): every throw is caught and
\* answered false
verifyPassword(password, hash) ==
  LET parts == Split(hash, Dollar)
  IN  IF Len(parts) # 4 \/ parts[1] # Tag THEN FALSE
      ELSE LET iterations == parseInt(IF parts[2] # << >> THEN parts[2]
                                      ELSE VerifyDefaultIterations)
               salt == parts[3]
               originalHash == parts[4]
               hashToVerify == pbkdf2Sync(password, salt, iterations)
           IN  IF hashToVerify.threw THEN FALSE
               ELSE originalHash = hashToVerify.hex

UpperCase == { "A", "B", "C", "D", "E", "F", "G", "H", "I", "J", "K", "L", "M",
               "N", "O", "P", "Q", "R", "S", "T", "U", "V", "W", "X", "Y", "Z" }
LowerCase == { "a", "b", "c", "d", "e", "f", "g", "h", "i", "j", "k", "l", "m",
               "n", "o", "p", "q", "r", "s", "t", "u", "v", "w", "x", "y", "z" }
Digits == { "0", "1", "2", "3", "4", "5", "6", "7", "8", "9" }

HasChar(s, class) == \E i \in 1..Len(s) : s[i] \in class
HasOther(s) == \E i \in 1..Len(s) : s[i] \notin (UpperCase \cup LowerCase \cup Digits)

\* CryptoUtils.calculateCharsetSize
calculateCharsetSize(password) ==
  (IF HasChar(password, LowerCase) THEN 26 ELSE 0)
  + (IF HasChar(password, UpperCase) THEN 26 ELSE 0)
  + (IF HasChar(password, Digits) THEN 10 ELSE 0)
  + (IF HasOther(password) THEN 32 ELSE 0)

\* floor(1000 * log2(size)) for the sizes calculateCharsetSize can return
Log2Milli(size) ==
  CASE size = 10 -> 3321 [] size = 26 -> 4700 [] size = 32 -> 5000
    [] size = 36 -> 5169 [] size = 42 -> 5392 [] size = 52 -> 5700
    [] size = 58 -> 5857 [] size = 62 -> 5954 [] size = 68 -> 6087
    [] size = 84 -> 6392 [] size = 94 -> 6554 [] OTHER -> 0

\* /(.)\1{2,}/ : a character three times in a row
RepeatedChar(s) == \E i \in 1..(Len(s) - 2) : s[i] = s[i + 1] /\ s[i] = s[i + 2]
\* /^(.{2,}?)\1+$/ : the whole string repeats a unit of two or more characters
RepeatedUnit(s) ==
  \E k \in 2..Len(s) :
    /\ Len(s) % k = 0
    /\ Len(s) \div k >= 2
    /\ \A i \in 1..Len(s) : s[i] = s[((i - 1) % k) + 1]

\* CryptoUtils.validatePasswordStrength: the feedback messages are named by
\* short identifiers, in the order the code pushes them
validatePasswordStrength(password) ==
  LET n == Len(password)
      ent == n * Log2Milli(calculateCharsetSize(password))
      checks ==
        << [ok |-> n >= 8, pts |-> 1, msg |-> "min8"],
           [ok |-> n >= 12 \/ n < 8, pts |-> IF n >= 12 THEN 1 ELSE 0, msg |-> "min12"],
           [ok |-> TRUE, pts |-> IF n >= 16 THEN 1 ELSE 0, msg |-> ""],
           [ok |-> HasChar(password, UpperCase), pts |-> 1, msg |-> "upper"],
           [ok |-> HasChar(password, LowerCase), pts |-> 1, msg |-> "lower"],
           [ok |-> HasChar(password, Digits), pts |-> 1, msg |-> "digit"],
           [ok |-> HasOther(password), pts |-> 1, msg |-> "special"],
           [ok |-> ~RepeatedChar(password), pts |-> 1, msg |-> "repeatedChars"],
           [ok |-> ~RepeatedUnit(password), pts |-> 1, msg |-> "repeatedSequence"],
           [ok |-> TRUE, pts |-> IF ent >= 50000 THEN 1 ELSE 0, msg |-> ""],
           [ok |-> TRUE, pts |-> IF ent >= 75000 THEN 1 ELSE 0, msg |-> ""] >>
      score == Len(SelectSeq(checks, LAMBDA c : c.ok /\ c.pts = 1))
      failed == SelectSeq(checks, LAMBDA c : ~c.ok)
  IN  [score |-> score,
       feedback |-> [i \in 1..Len(failed) |-> failed[i].msg],
       isStrong |-> score >= 7]

(***************************************************************************)
(* Node's path module (POSIX flavour).                                     *)
(***************************************************************************)
Sep == << "/" >>
DotSeg == << "." >>
DotDotSeg == << ".", "." >>
\* process.cwd()
Cwd == << "/", "w" >>

IsAbsolute(p) == p # << >> /\ Head(p) = "/"

\* normalizeString of lib/path.js: empty and "." segments are dropped, ".."
\* removes the segment before it; above the top it is dropped, or kept when
\* allowAboveRoot
RECURSIVE NormalizeSegments(_, _, _)
NormalizeSegments(segs, out, allowAboveRoot) ==
  IF segs = << >> THEN out
  ELSE LET seg == Head(segs)
           next ==
             IF seg = << >> \/ seg = DotSeg THEN out
             ELSE IF seg = DotDotSeg
                  THEN IF out # << >> /\ out[Len(out)] # DotDotSeg
                       THEN SubSeq(out, 1, Len(out) - 1)
                       ELSE IF allowAboveRoot THEN Append(out, seg) ELSE out
                  ELSE Append(out, seg)
       IN  NormalizeSegments(Tail(segs), next, allowAboveRoot)

\* path.normalize: a trailing separator is kept
pathNormalize(p) ==
  IF p = << >> THEN DotSeg
  ELSE LET abs  == IsAbsolute(p)
           trailing == p[Len(p)] = "/"
           body == Join(NormalizeSegments(Split(p, Sep), << >>, ~abs), Sep)
           body2 == IF body = << >> /\ ~abs THEN DotSeg ELSE body
           body3 == IF body2 # << >> /\ trailing THEN body2 \o Sep ELSE body2
       IN  IF abs THEN Sep \o body3 ELSE body3

\* path.join(a, b): the non-empty arguments joined with "/", then normalised
pathJoin(a, b) ==
  LET parts == SelectSeq(<< a, b >>, LAMBDA x : x # << >>)
  IN  IF parts = << >> THEN DotSeg ELSE pathNormalize(Join(parts, Sep))

\* path.resolve(p): absolute, normalised, no trailing separator
pathResolve(p) ==
  LET full == IF IsAbsolute(p) THEN p ELSE Cwd \o Sep \o p
  IN  Sep \o Join(NormalizeSegments(Split(full, Sep), << >>, FALSE), Sep)

\* path.dirname of an absolute path
pathDirname(p) ==
  LET segs == SelectSeq(Split(p, Sep), LAMBDA x : x # << >>)
  IN  IF Len(segs) <= 1 THEN Sep
      ELSE Sep \o Join(SubSeq(segs, 1, Len(segs) - 1), Sep)

\* path.basename of an absolute path
pathBasename(p) ==
  LET segs == SelectSeq(Split(p, Sep), LAMBDA x : x # << >>)
  IN  IF segs = << >> THEN << >> ELSE segs[Len(segs)]

(***************************************************************************)
(* The file system: a function from resolved absolute paths to nodes.      *)
(***************************************************************************)
DirNode == [kind |-> "dir", data |-> << >>]
FileNode(bytes) == [kind |-> "file", data |-> bytes]

Exists(d, p) == p \in DOMAIN d
IsDir(d, p) == Exists(d, p) /\ d[p].kind = "dir"

\* a path and its ancestors, the root directory included
SelfAndAncestors(p) ==
  LET segs == SelectSeq(Split(p, Sep), LAMBDA x : x # << >>)
  IN  { Sep \o Join(SubSeq(segs, 1, k), Sep) : k \in 0..Len(segs) }

\* fs.mkdirSync(p, { recursive: true }): creates the missing directories of the
\* path; throws (ENOTDIR / EEXIST) when the path or an ancestor is a file
mkdirSync(d, p) ==
  LET chain == SelfAndAncestors(pathResolve(p))
      blocked == \E q \in chain : Exists(d, q) /\ ~IsDir(d, q)
      made == { q \in chain : ~Exists(d, q) }
  IN  IF blocked THEN [threw |-> TRUE, disk |-> d, made |-> {}]
      ELSE [threw |-> FALSE,
            disk |-> [q \in DOMAIN d \cup made |-> IF q \in made THEN DirNode ELSE d[q]],
            made |-> made]

\* opening fs.createWriteStream(p) (flags 'w'): the file is created or
\* truncated; the open fails when p is a directory (EISDIR) or its parent is
\* no directory (ENOENT / ENOTDIR)
openForWrite(d, p) ==
  LET q == pathResolve(p)
  IN  IF IsDir(d, q) \/ ~IsDir(d, pathDirname(q))
      THEN [failed |-> TRUE, disk |-> d]
      ELSE [failed |-> FALSE,
            disk |-> [r \in DOMAIN d \cup { q } |-> IF r = q THEN FileNode(<< >>) ELSE d[r]]]

\* the bytes piped into an open write stream, as the file holds them at 'close'
writeFile(d, p, bytes) ==
  [r \in DOMAIN d \cup { pathResolve(p) } |->
     IF r = pathResolve(p) THEN FileNode(bytes) ELSE d[r]]

(***************************************************************************)
(* The compression codec (zlib behind archiver and yauzl), as run-length   *)
(* coding: a run is at most as long as the level, a higher level packs     *)
(* more                                                                    *)
(***************************************************************************)
RECURSIVE Deflate(_, _)
Deflate(level, bytes) ==
  IF bytes = << >> THEN << >>
  ELSE LET same == { k \in 1..Len(bytes) :
                       k <= level /\ \A i \in 1..k : bytes[i] = bytes[1] }
           run == CHOOSE k \in same : \A j \in same : j <= k
       IN  << << bytes[1], run >> >> \o Deflate(level, SubSeq(bytes, run + 1, Len(bytes)))

RECURSIVE Inflate(_)
Inflate(runs) ==
  IF runs = << >> THEN << >>
  ELSE [i \in 1..Head(runs)[2] |-> Head(runs)[1]] \o Inflate(Tail(runs))

(***************************************************************************)
(* The inputs of the model.                                                *)
(***************************************************************************)
\* 'SZIP_PASSWORD_PROTECTED:'
Marker == << "S", "Z", "I", "P", "_", "P", "A", "S", "S", "W", "O", "R", "D", "_",
             "P", "R", "O", "T", "E", "C", "T", "E", "D", ":" >>

\* the resolved output directory of an extraction, its sibling /oo shares the
\* prefix /o; the source of an archive; the archive file
Root == << "/", "o" >>
Source == << "/", "t" >>
ZipPath == << "/", "z" >>

WeakPassword == << "p", "w" >>
StrongPassword == << "A", "a", "1", "!", "B", "b", "2", "@" >>
Passwords == { WeakPassword, StrongPassword }
\* the password argument of a call: absent, empty, or a password
PasswordArgs == { Undefined, Some(<< >>) } \cup { Some(p) : p \in Passwords }

\* the values crypto.randomBytes(32).toString('hex') takes in the model
RandomHexes == { << "3", "a" >>, << "b", "7" >> }

\* the compressionLevel option; 0 stands for an omitted option too
Levels == { 0, 1, 9 }

FileDatas == { << >>, << 1, 1, 0 >> }

\* the descendants a source directory can have, relative to it
RelA == << "a" >>
RelD == << "d" >>
RelDA == << "d", "/", "a" >>
FileRels == { RelA, RelDA }
DirRels == { RelD }
Shapes ==
  { sh \in SUBSET (FileRels \cup DirRels) :
      /\ Cardinality(sh) <= MaxTreeItems
      /\ RelDA \in sh => RelD \in sh }

BaseDisk == (Sep :> DirNode)

\* the disks that hold a source at /t: one file, or a directory tree
SourceDisks ==
  { BaseDisk @@ (Source :> FileNode(b)) : b \in FileDatas }
  \cup
  UNION { { BaseDisk @@ (Source :> DirNode) @@ [r \in { Source \o Sep \o x : x \in sh } |-> f[r]] :
              f \in { g \in [{ Source \o Sep \o x : x \in sh } -> { DirNode } \cup { FileNode(b) : b \in FileDatas }] :
                        \A x \in sh : (x \in DirRels) <=> (g[Source \o Sep \o x] = DirNode) } } :
          sh \in Shapes }

NoZip == [exists |-> FALSE, comment |-> << >>, entries |-> << >>]

Entry(name, bytes) == [fileName |-> name, cdata |-> Deflate(9, bytes)]

\* every string of at most n characters over the characters of cs
RECURSIVE StringsUpTo(_, _)
StringsUpTo(cs, n) ==
  IF n = 0 THEN { << >> }
  ELSE LET shorter == StringsUpTo(cs, n - 1)
       IN  shorter \cup { Append(t, c) : t \in shorter, c \in cs }

NameChars == { ".", "/", "o" }
\* entry names of the hand-crafted archives with several entries
CraftedNames ==
  { << "a" >>, << "a", "/" >>, << "a", "/", "b" >>,
    << ".", ".", "/", "x" >>, << "/", "a" >>, << "d", "/" >> }

\* a credential of WeakPassword, as zip would have stored it
GoodCredential == generatePasswordHash(WeakPassword, Undefined, DefaultIterations, << "3", "a" >>).value
\* the comments of the hand-crafted archives
CraftedComments ==
  { Marker \o GoodCredential,
    Marker,
    Marker \o Marker \o GoodCredential,
    << "x" >> \o Marker \o GoodCredential,
    Marker \o GoodCredential \o Marker,
    Marker \o << "x" >>,
    << "x" >> }

\* control characters an entry name can carry (tab, line feed)
ControlChars == { "\t", "\n" }
ControlNames == { << "a", "\n" >>, << "\t" >>, << "d", "\t", "/" >> }

\* archives that did not come out of SimplZip.zip
CraftedArchives ==
  { [exists |-> TRUE, comment |-> << >>, entries |-> << Entry(n, << 1 >>) >>] :
      n \in StringsUpTo(NameChars, MaxNameLen) }
  \cup
  { [exists |-> TRUE, comment |-> << >>,
     entries |-> [i \in 1..k |-> Entry(ns[i], << 1 >>)]] :
      k \in 2..MaxEntries, ns \in [1..MaxEntries -> CraftedNames] }
  \cup
  { [exists |-> TRUE, comment |-> c, entries |-> << Entry(<< "a" >>, << 1 >>) >>] :
      c \in CraftedComments }
  \cup
  { [exists |-> TRUE, comment |-> << >>, entries |-> << Entry(n, << 1 >>) >>] :
      n \in ControlNames }

(***************************************************************************)
(* The state.                                                              *)
(***************************************************************************)
VARIABLES
  disk,     \* the file system: resolved path -> node
  zip,      \* the archive file at ZipPath: its comment and its entries
  origin,   \* where the archive came from, and the password it was made with
  zres,     \* the promise SimplZip.zip returned, with its ZipResult
  log,      \* the messages handed to Logger / console
  uz,       \* the running SimplZip.unzip call
  created,  \* the paths unzip has created or written
  cred,     \* the credential codec called on its own
  zc,       \* the running SimplZip.zip call, step by step
  libcall,  \* a library function called on its own: its arguments and result
  rate      \* SecurityUtils.operationCounts, the clock and the calls made

vars == << disk, zip, origin, zres, log, uz, created, cred, zc, libcall, rate >>

NoResult == [status |-> "none", error |-> "none", outputPath |-> << >>, size |-> 0,
             directory |-> << >>, fileCount |-> 0, compressionRatio |-> 0,
             hash |-> Undefined, hashAlgorithm |-> Undefined]
UnzipIdle == [pc |-> "idle", impl |-> "none", password |-> Undefined, idx |-> 0,
              status |-> "none", error |-> "none", entryPath |-> << >>,
              writeFailed |-> FALSE, fault |-> "none", failedAt |-> 0,
              requested |-> 0, openFiles |-> 0]
CredIdle == [pc |-> "off"]
CallIdle == [pc |-> "off"]
RateIdle == [pc |-> "off"]
ZipIdle == [pc |-> "idle", impl |-> "none", password |-> Undefined,
            levelOption |-> [some |-> FALSE, v |-> 0], level |-> 0,
            generateHash |-> Undefined, output |-> << >>, originalSize |-> 0,
            fileCount |-> 0, calls |-> << >>, comment |-> << >>, queue |-> << >>,
            failure |-> "none", closed |-> FALSE]

Init ==
  /\ \/ zip = NoZip /\ disk \in SourceDisks \cup { BaseDisk }
     \/ zip \in CraftedArchives /\ disk = BaseDisk
  /\ origin = [by |-> IF zip.exists THEN "crafted" ELSE "none", password |-> Undefined]
  /\ zres = NoResult
  /\ log = << >>
  /\ uz = UnzipIdle
  /\ created = {}
  /\ cred = CredIdle
  /\ zc = ZipIdle
  /\ libcall = CallIdle
  /\ rate = RateIdle

(***************************************************************************)
(* SimplZip.zip                                                            *)
(***************************************************************************)
\* every order of the elements of a finite set
Orders(S) ==
  { f \in [1..Cardinality(S) -> S] : \A i, j \in 1..Cardinality(S) : f[i] = f[j] => i = j }

\* the entries archive.directory(source, basename) / archive.file(source,
\* { name: basename }) appends: one per descendant, directories with a trailing
\* separator, named relative to the top-level name; a file source is one entry
SourceEntries(d, source, level) ==
  IF IsDir(d, source)
  THEN { [fileName |-> pathBasename(source)
                       \o SubSeq(q, Len(source) + 1, Len(q))
                       \o (IF IsDir(d, q) THEN Sep ELSE << >>),
          cdata |-> Deflate(level, d[q].data)] :
           q \in { r \in DOMAIN d : StartsWith(r, source \o Sep) } }
  ELSE { [fileName |-> pathBasename(source), cdata |-> Deflate(level, d[source].data)] }

\* the zlib level handed to archiver: options.compressionLevel || 9
zlibLevel(compressionLevel) == IF compressionLevel = 0 THEN 9 ELSE compressionLevel

\* the first n elements of a list (Array.prototype.slice(0, n))
Slice(xs, n) == SubSeq(xs, 1, IF Len(xs) < n THEN Len(xs) ELSE n)

\* what zip logs about the password: the weak-password warning, then the
\* protection notice
zipLog(password) ==
  IF ~Truthy(password) THEN << >>
  ELSE LET validation == validatePasswordStrength(password.v)
       IN  (IF validation.isStrong THEN << >>
            ELSE << [level |-> "warn", code |-> 102, msg |-> "Weak password: ",
                     args |-> Slice(validation.feedback, 2)] >>)
           \o << [level |-> "info", code |-> 0, msg |-> "Adding password protection...",
                  args |-> << >>] >>

\* archive.comment of zip: the marker and the credential, when a password is given
zipComment(password, randomHex) ==
  IF Truthy(password)
  THEN Marker \o generatePasswordHash(password.v, Undefined, DefaultIterations, randomHex).value
  ELSE << >>

SourceNotFoundError == "Source path does not exist"

RECURSIVE SumSeq(_)
SumSeq(ns) == IF ns = << >> THEN 0 ELSE Head(ns) + SumSeq(Tail(ns))

\* SimplZip.calculateDirectorySize: the sizes of the files below the path (of
\* the path itself when it is a file); directories count for nothing
calculateDirectorySize(d, dirPath) ==
  LET files == { q \in DOMAIN d : (q = dirPath \/ StartsWith(q, dirPath \o Sep)) /\ ~IsDir(d, q) }
      order == CHOOSE f \in Orders(files) : TRUE
  IN  SumSeq([i \in 1..Cardinality(files) |-> Len(d[order[i]].data)])

\* the fixed parts of a ZIP container: the local header and the central
\* directory header of an entry, the end-of-central-directory record
LocalHeaderSize == 30
CentralHeaderSize == 46
EndRecordSize == 22

\* fs.statSync(output).size of a finished container: the headers and the name
\* of every entry, its compressed bytes (two per run), the end record and the
\* comment
containerSize(z) ==
  SumSeq([i \in 1..Len(z.entries) |->
            LocalHeaderSize + CentralHeaderSize
            + 2 * Len(z.entries[i].fileName) + 2 * Len(z.entries[i].cdata)])
  + EndRecordSize + Len(z.comment)

\* Math.round(x) of the quotient n / d, d > 0: halves go up
MathRound(n, d) == (2 * n + d) \div (2 * d)

\* the compressionRatio of the ZipResult, in hundredths of a percent:
\* Math.round(ratio * 100) / 100 of
\* originalSize > 0 ? ((originalSize - size) / originalSize) * 100 : 0
compressionRatio(originalSize, size) ==
  IF originalSize > 0 THEN MathRound((originalSize - size) * 10000, originalSize) ELSE 0

\* zip creating the output before it looks at the source
Zip_OpensFirst(password, compressionLevel, randomHex) ==
  /\ uz.pc = "idle"
  /\ zres.status = "none"
  /\ ~Exists(disk, Source)
  /\ zip' = [exists |-> TRUE, comment |-> << >>, entries |-> << >>]
  /\ zres' = [NoResult EXCEPT !.status = "rejected", !.error = SourceNotFoundError]
  /\ UNCHANGED << disk, log, origin, uz, created, cred, zc, libcall, rate >>

\* SimplZip.zip(Source, ZipPath, { password, compressionLevel }), from the call
\* to the settled promise. A missing source throws before anything is opened
Zip(password, compressionLevel, randomHex) ==
  /\ uz.pc = "idle"
  /\ zres.status = "none"
  /\ IF ~Exists(disk, Source)
     THEN /\ zres' = [NoResult EXCEPT !.status = "rejected", !.error = SourceNotFoundError]
          /\ UNCHANGED << zip, log, origin >>
     ELSE /\ ~zip.exists
          /\ \E order \in Orders(SourceEntries(disk, Source, zlibLevel(compressionLevel))) :
               LET written == [exists |-> TRUE,
                               comment |-> zipComment(password, randomHex),
                               entries |-> order]
               IN  /\ zip' = written
                   /\ zres' = [status |-> "resolved",
                               error |-> "none",
                               outputPath |-> pathResolve(ZipPath),
                               size |-> containerSize(written),
                               directory |-> pathDirname(pathResolve(ZipPath)),
                               fileCount |-> (IF IsDir(disk, Source) THEN 0 ELSE 1) + Len(order),
                               compressionRatio |->
                                 compressionRatio(calculateDirectorySize(disk, Source),
                                                  containerSize(written)),
                               hash |-> Undefined,
                               hashAlgorithm |-> Undefined]
          /\ log' = log \o zipLog(password)
          /\ origin' = [by |-> "zip", password |-> password]
  /\ UNCHANGED << disk, uz, created, cred, zc, libcall, rate >>

(***************************************************************************)
(* SimplZip.unzip: the main implementation and the fallback implementation *)
(***************************************************************************)
NotFoundError == "ZIP file does not exist"
PasswordRequiredError == "Archive is password protected. Provide password using -p flag"
IncorrectPasswordError == "Incorrect password"
StreamError == "stream error"
MkdirError == "mkdir error"

\* the promise settles once: a later resolve or reject changes nothing
Settle(u, status, error) ==
  IF u.status = "pending" THEN [u EXCEPT !.status = status, !.error = error] ELSE u

\* checkPasswordProtection looking for the marker at the start of the comment only
checkPasswordProtection_Prefix(z) == z.exists /\ StartsWith(z.comment, Marker)

\* SimplZip.checkPasswordProtection: false when the archive cannot be opened
checkPasswordProtection(z) == z.exists /\ Includes(z.comment, Marker)

\* the password gate of the yauzl.open callback of the main unzip: TRUE when
\* the call is rejected with 'Incorrect password'
passwordRejected(password, comment) ==
  /\ Truthy(password)
  /\ comment # << >>
  /\ LET commentParts == Split(comment, Marker)
     IN  /\ Len(commentParts) = 2
         /\ commentParts[2] # << >>
         /\ ~verifyPassword(password.v, commentParts[2])

\* TRUE when the gate logs 'Password verified'
passwordVerified(password, comment) ==
  /\ Truthy(password)
  /\ comment # << >>
  /\ Len(Split(comment, Marker)) = 2
  /\ ~passwordRejected(password, comment)

\* isPathSafe refusing every path
isPathSafe_Never(targetPath, allowedRoot) == FALSE

\* isPathSafe comparing against the root without the separator
isPathSafe_NoSeparator(targetPath, allowedRoot) ==
  StartsWith(pathResolve(targetPath), pathResolve(allowedRoot))

\* SimplZip.isPathSafe (the same code in both implementations)
isPathSafe(targetPath, allowedRoot) ==
  LET resolvedTarget == pathResolve(targetPath)
      resolvedRoot == pathResolve(allowedRoot)
  IN  StartsWith(resolvedTarget, resolvedRoot \o Sep) \/ resolvedTarget = resolvedRoot

\* the directory test never matching: every entry is taken for a file
isDirectoryEntry_Never(fileName) == FALSE

\* /\/$/.test(entry.fileName): a directory entry ends with a separator
isDirectoryEntry(fileName) == fileName # << >> /\ fileName[Len(fileName)] = "/"

ContainerError == "container error"

\* readEntry asking for two entries at once
readEntry_Twice(u) == [u EXCEPT !.pc = "reading", !.requested = @ + 2]

\* zipfile.readEntry(): the next entry is requested; 'entry' or 'end' follows
readEntry(u) == [u EXCEPT !.pc = "reading", !.requested = @ + 1]

\* the call of the main unzip, up to the yauzl.open it issues
unzip(password) ==
  /\ uz.pc = "idle"
  /\ LET started == [UnzipIdle EXCEPT !.impl = "main", !.password = password,
                                      !.status = "pending"]
     IN  uz' = IF ~zip.exists
               THEN [Settle(started, "rejected", NotFoundError) EXCEPT !.pc = "done"]
               ELSE IF checkPasswordProtection(zip) /\ ~Truthy(password)
               THEN [Settle(started, "rejected", PasswordRequiredError) EXCEPT !.pc = "done"]
               ELSE [started EXCEPT !.pc = "opening"]
  /\ UNCHANGED << disk, zip, origin, zres, log, created, cred, zc, libcall, rate >>

\* the yauzl.open callback of the main unzip: the password gate, then the
\* first readEntry
unzipOpened ==
  /\ uz.pc = "opening"
  /\ uz.impl = "main"
  /\ IF passwordRejected(uz.password, zip.comment)
     THEN /\ uz' = [Settle(uz, "rejected", IncorrectPasswordError) EXCEPT !.pc = "done"]
          /\ log' = log
     ELSE /\ uz' = readEntry(uz)
          /\ log' = IF passwordVerified(uz.password, zip.comment)
                    THEN Append(log, [level |-> "info", code |-> 0,
                                      msg |-> "Password verified", args |-> << >>])
                    ELSE log
  /\ UNCHANGED << disk, zip, origin, zres, created, cred, zc, libcall, rate >>

\* the call of the fallback unzip
fallbackUnzip(password) ==
  /\ uz.pc = "idle"
  /\ LET started == [UnzipIdle EXCEPT !.impl = "fallback", !.password = password,
                                      !.status = "pending"]
     IN  uz' = IF ~zip.exists
               THEN [Settle(started, "rejected", NotFoundError) EXCEPT !.pc = "done"]
               ELSE [started EXCEPT !.pc = "opening"]
  /\ UNCHANGED << disk, zip, origin, zres, log, created, cred, zc, libcall, rate >>

\* the yauzl.open callback of the fallback unzip: the first readEntry
fallbackUnzipOpened ==
  /\ uz.pc = "opening"
  /\ uz.impl = "fallback"
  /\ uz' = readEntry(uz)
  /\ UNCHANGED << disk, zip, origin, zres, log, created, cred, zc, libcall, rate >>

\* the 'entry' handler. A throw of mkdirSync leaves the handler of the main
\* implementation as an uncaught exception; the fallback catches it and rejects
onEntry ==
  /\ uz.pc = "reading"
  /\ uz.idx < Len(zip.entries)
  /\ LET entry == zip.entries[uz.idx + 1]
         entryPath == pathJoin(Root, entry.fileName)
         isDirectory == isDirectoryEntry(entry.fileName)
         made == mkdirSync(disk, IF isDirectory THEN entryPath ELSE pathDirname(entryPath))
         taken == [uz EXCEPT !.idx = uz.idx + 1, !.entryPath = entryPath]
     IN  IF ~isPathSafe(entryPath, Root)
         THEN /\ log' = Append(log, [level |-> "warn", code |-> 103,
                                     msg |-> "Skipping unsafe path: ",
                                     args |-> << entry.fileName >>])
              /\ uz' = readEntry(taken)
              /\ UNCHANGED << disk, created >>
         ELSE IF made.threw
         THEN /\ uz' = IF uz.impl = "main"
                       THEN [taken EXCEPT !.pc = "done", !.status = "crashed",
                                          !.error = MkdirError]
                       ELSE [Settle(taken, "rejected", MkdirError) EXCEPT !.pc = "done"]
              /\ UNCHANGED << disk, created, log >>
         ELSE /\ disk' = made.disk
              /\ created' = created \cup made.made
              /\ uz' = IF isDirectory THEN readEntry(taken)
                       ELSE [taken EXCEPT !.pc = "stream"]
              /\ log' = log
  /\ UNCHANGED << zip, origin, zres, cred, zc, libcall, rate >>

\* the faults the environment can inject into the streams of one entry: none,
\* openReadStream answering with an error, the read stream failing under way,
\* the write stream failing under way
StreamFaults == { "none", "open", "read", "write" }

\* the openReadStream callback. With an error it rejects and asks for no
\* further entry. Otherwise the write stream is created and the entry is piped
\* into it: a failed open or a failed write of the write stream emits 'error'
\* (reject) and then 'close'; an 'error' of the read stream has no listener and
\* is an uncaught exception
onReadStream(fault) ==
  /\ uz.pc = "stream"
  /\ LET opened == openForWrite(disk, uz.entryPath)
     IN  IF fault = "open"
         THEN /\ uz' = [Settle(uz, "rejected", StreamError) EXCEPT
                          !.pc = "done", !.fault = fault, !.failedAt = uz.idx]
              /\ UNCHANGED << disk, created >>
         ELSE IF opened.failed
         THEN /\ uz' = [Settle(uz, "rejected", StreamError) EXCEPT
                          !.pc = "writing", !.writeFailed = TRUE, !.openFiles = @ + 1,
                          !.failedAt = IF uz.failedAt = 0 THEN uz.idx ELSE uz.failedAt]
              /\ UNCHANGED << disk, created >>
         ELSE /\ disk' = opened.disk
              /\ created' = created \cup { pathResolve(uz.entryPath) }
              /\ uz' = IF fault = "read"
                       THEN [uz EXCEPT !.pc = "done", !.status = "crashed",
                                       !.openFiles = @ + 1,
                                       !.error = StreamError, !.fault = fault,
                                       !.failedAt = IF uz.failedAt = 0 THEN uz.idx
                                                    ELSE uz.failedAt]
                       ELSE IF fault = "write"
                       THEN [Settle(uz, "rejected", StreamError) EXCEPT
                               !.pc = "writing", !.writeFailed = TRUE, !.fault = fault,
                               !.openFiles = @ + 1,
                               !.failedAt = IF uz.failedAt = 0 THEN uz.idx
                                            ELSE uz.failedAt]
                       ELSE [uz EXCEPT !.pc = "writing", !.writeFailed = FALSE,
                                       !.openFiles = @ + 1]
  /\ UNCHANGED << zip, origin, zres, log, cred, zc, libcall, rate >>

\* the 'close' handler of the write stream: the bytes are in the file, the
\* next entry is requested
onWriteClose ==
  /\ uz.pc = "writing"
  /\ disk' = IF uz.writeFailed THEN disk
             ELSE writeFile(disk, uz.entryPath, Inflate(zip.entries[uz.idx].cdata))
  /\ uz' = readEntry([uz EXCEPT !.writeFailed = FALSE, !.openFiles = @ - 1])
  /\ UNCHANGED << zip, origin, zres, log, created, cred, zc, libcall, rate >>

\* the 'end' handler: the promise resolves with the output directory
onEnd ==
  /\ uz.pc = "reading"
  /\ uz.idx = Len(zip.entries)
  /\ uz' = [Settle(uz, "resolved", "none") EXCEPT !.pc = "done"]
  /\ UNCHANGED << disk, zip, origin, zres, log, created, cred, zc, libcall, rate >>

\* an 'error' of the zipfile while the next entry is read from the container
\* (zipfile.on('error', reject)); no further entry follows
onZipfileError ==
  /\ uz.pc = "reading"
  /\ uz' = [Settle(uz, "rejected", ContainerError) EXCEPT !.pc = "done", !.fault = "container"]
  /\ UNCHANGED << disk, zip, origin, zres, log, created, cred, zc, libcall, rate >>

Next ==
  \/ \E pw \in PasswordArgs, lv \in Levels, rh \in RandomHexes : Zip(pw, lv, rh)
  \/ \E pw \in PasswordArgs : unzip(pw)
  \/ unzipOpened
  \/ \E pw \in PasswordArgs : fallbackUnzip(pw)
  \/ fallbackUnzipOpened
  \/ onEntry
  \/ \E fault \in StreamFaults : onReadStream(fault)
  \/ onWriteClose
  \/ onEnd
  \/ onZipfileError

Spec == Init /\ [][Next]_vars

(***************************************************************************)
(* The credential codec called on its own: a credential is generated, or   *)
(* an arbitrary stored string is supplied; the stored string may then be   *)
(* changed in one character; a password is verified against it.            *)
(***************************************************************************)
GeneratePasswords == { << >>, WeakPassword }
CredPasswords == GeneratePasswords \cup { << "p", "x" >> }
CredSalts == { Undefined, Some(<< >>), Some(<< "3", "a" >>), Some(<< "a", "$", "b" >>) }
CredIterations == { 1, DefaultIterations }
TamperChars == { "0", "$", " ", "a", "+" }

\* the strings one character away from s: a substitution, an insertion, a deletion
Mutations(s) ==
  UNION { { [s EXCEPT ![i] = c] : c \in (TamperChars \ { s[i] }) } : i \in 1..Len(s) }
  \cup { SubSeq(s, 1, i) \o << c >> \o SubSeq(s, i + 1, Len(s)) : i \in 0..Len(s), c \in TamperChars }
  \cup { SubSeq(s, 1, i - 1) \o SubSeq(s, i + 1, Len(s)) : i \in 1..Len(s) }

\* stored strings that generatePasswordHash did not produce
CraftedStored ==
  { << >>,
    Tag,
    Tag \o Dollar \o Dollar \o << "3", "a" >> \o Dollar
      \o pbkdf2Sync(WeakPassword, << "3", "a" >>, [nan |-> FALSE, val |-> DefaultIterations]).hex,
    Tag \o Dollar \o << "0" >> \o Dollar \o << "3", "a" >> \o Dollar,
    Tag \o Dollar \o << "-", "1" >> \o Dollar \o << "3", "a" >> \o Dollar,
    Tag \o Dollar \o << "x" >> \o Dollar \o << "3", "a" >> \o Dollar,
    << "s", "h", "a", "1" >> \o Dollar \o << "1" >> \o Dollar \o << "3", "a" >> \o Dollar
      \o pbkdf2Sync(WeakPassword, << "3", "a" >>, [nan |-> FALSE, val |-> 1]).hex }

InitCred ==
  /\ disk = BaseDisk
  /\ zip = NoZip
  /\ origin = [by |-> "none", password |-> Undefined]
  /\ zres = NoResult
  /\ log = << >>
  /\ uz = UnzipIdle
  /\ created = {}
  /\ zc = ZipIdle
  /\ libcall = CallIdle
  /\ rate = RateIdle
  /\ \E p \in GeneratePasswords, s \in CredSalts, n \in CredIterations,
        rh \in RandomHexes :
       cred = [pc |-> "start", password |-> p, salt |-> s, iterations |-> n,
               randomHex |-> rh, stored |-> << >>, from |-> "none",
               attempt |-> << >>, result |-> FALSE]

\* generatePasswordHash(password, salt, iterations) is called and its value kept
CredGenerate ==
  /\ cred.pc = "start"
  /\ cred' = [cred EXCEPT
                !.pc = "stored",
                !.from = "generated",
                !.stored = generatePasswordHash(cred.password, cred.salt,
                                                cred.iterations, cred.randomHex).value]
  /\ UNCHANGED << disk, zip, origin, zres, log, uz, created, zc, libcall, rate >>

\* a stored string from elsewhere is supplied
CredSupply(s) ==
  /\ cred.pc = "start"
  /\ cred' = [cred EXCEPT !.pc = "stored", !.from = "crafted", !.stored = s]
  /\ UNCHANGED << disk, zip, origin, zres, log, uz, created, zc, libcall, rate >>

\* one character of a generated credential is changed
CredTamper(s) ==
  /\ cred.pc = "stored"
  /\ cred.from = "generated"
  /\ cred' = [cred EXCEPT !.from = "tampered", !.stored = s]
  /\ UNCHANGED << disk, zip, origin, zres, log, uz, created, zc, libcall, rate >>

\* verifyPassword(attempt, stored) is called
CredVerify(q) ==
  /\ cred.pc = "stored"
  /\ cred' = [cred EXCEPT !.pc = "verified", !.attempt = q,
                          !.result = verifyPassword(q, cred.stored)]
  /\ UNCHANGED << disk, zip, origin, zres, log, uz, created, zc, libcall, rate >>

NextCred ==
  \/ CredGenerate
  \/ \E s \in CraftedStored : CredSupply(s)
  \/ \E s \in Mutations(cred.stored) : CredTamper(s)
  \/ \E q \in CredPasswords : CredVerify(q)

SpecCred == InitCred /\ [][NextCred]_vars

(***************************************************************************)
(* SimplZip.zip step by step, in both implementations: the synchronous     *)
(* part of the call, the open of the output stream, the entries archiver   *)
(* takes from its queue, the end of the archive, the 'close' handler of    *)
(* the output stream and the continuation after the awaited digest.        *)
(***************************************************************************)
\* an output path whose directory does not exist
MissingDirOutput == << "/", "n", "/", "z" >>
Outputs == { ZipPath, MissingDirOutput }

\* the compressionLevel option: omitted, or a number
NoLevel == [some |-> FALSE, v |-> 0]
LevelOptions == { NoLevel } \cup { [some |-> TRUE, v |-> n] : n \in { -1, 0, 1, 9, 12 } }

\* the level handed to archiver for an option
archiverLevel(levelOption) ==
  IF levelOption.some THEN zlibLevel(levelOption.v) ELSE zlibLevel(0)

\* the levels zlib accepts; -1 asks for its default level
ZlibLevels == -1..9
ZlibDefaultLevel == 6

Sha256 == << "s", "h", "a", "2", "5", "6" >>
Md5 == << "m", "d", "5" >>
\* the algorithms crypto.createHash knows, among those of the model
SupportedAlgorithms == { Md5, Sha256 }
\* the generateHash option: omitted, empty, an algorithm, an unknown name
HashOptions == { Undefined, Some(<< >>), Some(Sha256), Some(Md5), Some(<< "x" >>) }

LowerSeq == << "a", "b", "c", "d", "e", "f", "g", "h", "i", "j", "k", "l", "m",
               "n", "o", "p", "q", "r", "s", "t", "u", "v", "w", "x", "y", "z" >>
UpperSeq == << "A", "B", "C", "D", "E", "F", "G", "H", "I", "J", "K", "L", "M",
               "N", "O", "P", "Q", "R", "S", "T", "U", "V", "W", "X", "Y", "Z" >>
\* String.prototype.toUpperCase
toUpperCase(str) ==
  [i \in 1..Len(str) |->
     IF \E k \in 1..Len(LowerSeq) : LowerSeq[k] = str[i]
     THEN UpperSeq[CHOOSE k \in 1..Len(LowerSeq) : LowerSeq[k] = str[i]]
     ELSE str[i]]

ZipPasswordArgs == { Undefined, Some(<< >>), Some(WeakPassword) }

\* a directory with one ten-byte file and one empty sub-directory
TenBytes == << 1, 1, 1, 1, 1, 1, 1, 1, 1, 1 >>
ScenarioDisk ==
  BaseDisk @@ (Source :> DirNode) @@ ((Source \o Sep \o RelA) :> FileNode(TenBytes))
           @@ ((Source \o Sep \o RelD) :> DirNode)

\* the disks zip is called on: a source, no source
ZipDisks == SourceDisks \cup { ScenarioDisk, BaseDisk }

\* an archive that is at the output path before the call
OldArchive == [exists |-> TRUE, comment |-> << >>, entries |-> << Entry(<< "a" >>, << 1 >>) >>]

OutputError == "output stream error"
CodecError == "codec error"
LevelError == "level out of range"
HashError == "hash error"

\* the faults the environment can inject while archiver takes an entry: none,
\* an error of the codec, an error of the output stream
ZipFaults == { "none", "codec", "io" }
\* the faults of the read stream of generateFileHash
HashFaults == { "none", "read" }

\* the calls made on the archiver object with the comment assigned last
archiverCalls_CommentLast(impl, password, isDirectory) ==
  << IF isDirectory THEN "directory" ELSE "file" >> \o << "finalize" >>
  \o (IF impl = "main" /\ Truthy(password) THEN << "comment" >> ELSE << >>)

\* the calls made on the archiver object, in the order of the code: the
\* comment is assigned (main implementation, with a password), the source is
\* added, the archive is finalized
archiverCalls(impl, password, isDirectory) ==
  (IF impl = "main" /\ Truthy(password) THEN << "comment" >> ELSE << >>)
  \o << IF isDirectory THEN "directory" ELSE "file" >> \o << "finalize" >>

\* the entries in archiver's queue after archive.directory / archive.file; an
\* entry is compressed when it is taken from the queue
queuedEntries(d, source, level) ==
  SourceEntries(d, source,
                IF level \in 1..9 THEN level ELSE ZlibDefaultLevel)

\* the digest of another file than the finished container
generateFileHash_OfEmpty(z, algorithm, fault) ==
  [threw |-> FALSE,
   hash |-> [algorithm |-> algorithm, comment |-> << >>, entries |-> << >>],
   algorithm |-> algorithm]

\* CryptoUtils.generateFileHash(output, algorithm): createHash throws for an
\* unknown algorithm, statSync for a missing file, the read stream can fail;
\* the digest is idealised as collision-free in the content of the file
generateFileHash(z, algorithm, fault) ==
  IF algorithm \notin SupportedAlgorithms \/ ~z.exists \/ fault = "read"
  THEN [threw |-> TRUE, hash |-> Undefined, algorithm |-> algorithm]
  ELSE [threw |-> FALSE,
        hash |-> [algorithm |-> algorithm, comment |-> z.comment, entries |-> z.entries],
        algorithm |-> algorithm]

InitZip ==
  /\ disk \in ZipDisks
  /\ zip \in { NoZip, OldArchive }
  /\ origin = [by |-> "none", password |-> Undefined]
  /\ zres = NoResult
  /\ log = << >>
  /\ uz = UnzipIdle
  /\ created = {}
  /\ cred = CredIdle
  /\ zc = ZipIdle
  /\ libcall = CallIdle
  /\ rate = RateIdle

\* the synchronous part of zip: the source is checked; (main) the password is
\* rated and the source measured; the output stream and the archiver are
\* created; (main) the comment is assigned; the handlers are registered, the
\* source is added and the archive finalized
zipCall(impl, password, levelOption, generateHash, output, randomHex) ==
  /\ zc.pc = "idle"
  /\ LET called == [ZipIdle EXCEPT !.impl = impl, !.password = password,
                                   !.levelOption = levelOption,
                                   !.generateHash = generateHash, !.output = output]
     IN  IF ~Exists(disk, Source)
         THEN /\ zc' = [called EXCEPT !.pc = "done", !.failure = "source"]
              /\ zres' = [NoResult EXCEPT !.status = "rejected", !.error = SourceNotFoundError]
              /\ log' = log
         ELSE /\ \E order \in Orders(queuedEntries(disk, Source, archiverLevel(levelOption))) :
                   zc' = [called EXCEPT
                            !.pc = "opening",
                            !.level = archiverLevel(levelOption),
                            !.originalSize = IF impl = "main"
                                             THEN calculateDirectorySize(disk, Source)
                                             ELSE 0,
                            !.fileCount = IF IsDir(disk, Source) THEN 0 ELSE 1,
                            !.calls = archiverCalls(impl, password, IsDir(disk, Source)),
                            !.comment = IF impl = "main"
                                        THEN zipComment(password, randomHex)
                                        ELSE << >>,
                            !.queue = order]
              /\ zres' = [NoResult EXCEPT !.status = "pending"]
              /\ log' = IF impl = "main" THEN log \o zipLog(password) ELSE log
  /\ UNCHANGED << disk, zip, origin, uz, created, cred, libcall, rate >>

\* an 'error' of the output stream: the fallback rejects; the main
\* implementation has no listener for it, it is an uncaught exception
outputStreamError(impl, promise) ==
  IF impl = "fallback" THEN Settle(promise, "rejected", OutputError)
  ELSE [promise EXCEPT !.status = "crashed", !.error = OutputError]

\* the open of fs.createWriteStream(output) completes: the file is created or
\* truncated, or the stream emits 'error'
zipOutputOpened ==
  /\ zc.pc = "opening"
  /\ IF openForWrite(disk, zc.output).failed
     THEN /\ zres' = outputStreamError(zc.impl, zres)
          /\ zc' = [zc EXCEPT !.pc = "done", !.failure = "io"]
          /\ zip' = zip
     ELSE /\ zip' = [exists |-> TRUE, comment |-> << >>, entries |-> << >>]
          /\ zc' = [zc EXCEPT !.pc = "archiving"]
          /\ zres' = zres
  /\ UNCHANGED << disk, origin, log, uz, created, cred, libcall, rate >>

\* archiver takes the next entry from its queue, compresses it and writes it,
\* then emits 'entry' (fileCount++). A level outside zlib's range fails when
\* the codec of a file entry is created: as an 'error' of the archive or as an
\* uncaught exception. An error of the codec is an 'error' of the archive
zipEntry(fault) ==
  /\ zc.pc = "archiving"
  /\ zc.queue # << >>
  /\ LET entry == Head(zc.queue)
     IN  IF ~isDirectoryEntry(entry.fileName) /\ zc.level \notin ZlibLevels
         THEN /\ \E outcome \in { "rejected", "crashed" } :
                   zres' = [zres EXCEPT !.status = outcome, !.error = LevelError]
              /\ zc' = [zc EXCEPT !.pc = "done", !.failure = "level"]
              /\ zip' = zip
         ELSE IF fault = "codec"
         THEN /\ zres' = Settle(zres, "rejected", CodecError)
              /\ zc' = [zc EXCEPT !.pc = "done", !.failure = "codec"]
              /\ zip' = zip
         ELSE IF fault = "io"
         THEN /\ zres' = outputStreamError(zc.impl, zres)
              /\ zc' = [zc EXCEPT !.pc = "done", !.failure = "io"]
              /\ zip' = zip
         ELSE /\ zip' = [zip EXCEPT !.entries = Append(@, entry)]
              /\ zc' = [zc EXCEPT !.queue = Tail(@), !.fileCount = @ + 1]
              /\ zres' = zres
  /\ UNCHANGED << disk, origin, log, uz, created, cred, libcall, rate >>

\* the queue is empty and the archive finalized: archiver writes the central
\* directory with the comment and ends the output stream
zipFinish ==
  /\ zc.pc = "archiving"
  /\ zc.queue = << >>
  /\ zip' = [zip EXCEPT !.comment = zc.comment]
  /\ zc' = [zc EXCEPT !.pc = "closing"]
  /\ UNCHANGED << disk, origin, zres, log, uz, created, cred, libcall, rate >>

\* the ZipResult the main implementation resolves with
zipResult(z, call, hash, hashAlgorithm) ==
  [status |-> "resolved",
   error |-> "none",
   outputPath |-> pathResolve(call.output),
   size |-> containerSize(z),
   directory |-> pathDirname(pathResolve(call.output)),
   fileCount |-> call.fileCount,
   compressionRatio |-> compressionRatio(call.originalSize, containerSize(z)),
   hash |-> hash,
   hashAlgorithm |-> hashAlgorithm]

\* the 'close' handler of the output stream. Main: the ratio is computed, then
\* either the digest is awaited or the promise resolves. Fallback: the promise
\* resolves with compressionRatio 0 and no hash
onOutputClose ==
  /\ zc.pc = "closing"
  /\ IF zc.impl = "main" /\ Truthy(zc.generateHash)
     THEN /\ log' = Append(log, [level |-> "info", code |-> 0, msg |-> "Generating hash...",
                                 args |-> << toUpperCase(zc.generateHash.v) >>])
          /\ zc' = [zc EXCEPT !.pc = "hashing", !.closed = TRUE]
          /\ zres' = zres
     ELSE /\ zres' = IF zc.impl = "main"
                     THEN zipResult(zip, zc, Undefined, Undefined)
                     ELSE [zipResult(zip, zc, Undefined, Undefined) EXCEPT
                             !.compressionRatio = 0]
          /\ zc' = [zc EXCEPT !.pc = "done", !.closed = TRUE]
          /\ log' = log
  /\ UNCHANGED << disk, zip, origin, uz, created, cred, libcall, rate >>

\* the continuation of the 'close' handler after await generateFileHash: the
\* promise resolves with the digest, or rejects with what generateFileHash threw
onHashDone(fault) ==
  /\ zc.pc = "hashing"
  /\ LET hashResult == generateFileHash(zip, zc.generateHash.v, fault)
     IN  /\ zres' = IF hashResult.threw
                    THEN Settle(zres, "rejected", HashError)
                    ELSE zipResult(zip, zc, Some(hashResult.hash), Some(hashResult.algorithm))
         /\ zc' = [zc EXCEPT !.pc = "done",
                             !.failure = IF hashResult.threw THEN "hash" ELSE "none"]
  /\ UNCHANGED << disk, zip, origin, log, uz, created, cred, libcall, rate >>

NextZip ==
  \/ \E impl \in { "main", "fallback" }, pw \in ZipPasswordArgs, lo \in LevelOptions,
        gh \in HashOptions, out \in Outputs, rh \in RandomHexes :
       zipCall(impl, pw, lo, gh, out, rh)
  \/ zipOutputOpened
  \/ \E fault \in ZipFaults : zipEntry(fault)
  \/ zipFinish
  \/ onOutputClose
  \/ \E fault \in HashFaults : onHashDone(fault)

SpecZip == InitZip /\ [][NextZip]_vars

(***************************************************************************)
(* Properties.                                                             *)
(***************************************************************************)
InsideRoot(p) == p = pathResolve(Root) \/ StartsWith(p, pathResolve(Root) \o Sep)
UnderSource(p) == p = Source \/ StartsWith(p, Source \o Sep)

\* the text of a comment after its first marker
StoredCredential(comment) ==
  SubSeq(comment, IndexOf(comment, Marker) + Len(Marker), Len(comment))

\* the main unzip rejects this call for its password
MainRejects(password, z) ==
  \/ checkPasswordProtection(z) /\ ~Truthy(password)
  \/ passwordRejected(password, z.comment)

\* where a path of the source lands under the output root
Image(q) == Root \o Sep \o pathBasename(Source) \o SubSeq(q, Len(Source) + 1, Len(q))

\* the output root holds the source, and nothing else: every descendant of a
\* source directory (or the source file) is there under the top-level name,
\* with its kind and its bytes
Reproduced ==
  LET wanted == IF IsDir(disk, Source)
                THEN { q \in DOMAIN disk : StartsWith(q, Source \o Sep) }
                ELSE { Source }
  IN  /\ \A q \in wanted : Exists(disk, Image(q)) /\ disk[Image(q)] = disk[q]
      /\ \A r \in DOMAIN disk :
           StartsWith(r, Root \o Sep) =>
             r = Image(Source) \/ \E q \in wanted : r = Image(q)

\* C1: during unzip, whatever the entry names of the archive, every path that
\* is created or written lies in the output root (it is the root, or starts
\* with root + separator), and nothing else appears on the disk.
C1_WritesStayInsideRoot ==
  /\ \A p \in created : InsideRoot(p)
  /\ \A p \in DOMAIN disk : InsideRoot(p) \/ p = Sep \/ UnderSource(p)

\* an archive with an entry that leaves the root has been extracted: the entry
\* was skipped, another entry was written
C1_Witness ==
  /\ uz.pc = "done"
  /\ uz.status = "resolved"
  /\ created # {}
  /\ \E i \in 1..Len(zip.entries) : ~InsideRoot(pathResolve(pathJoin(Root, zip.entries[i].fileName)))

\* C2: when the comment of the archive contains the marker and the supplied
\* password does not verify against the credential stored after it, the main
\* unzip rejects with 'Incorrect password', reads no entry and writes nothing.
C2_UnverifiedPasswordIsRejected ==
  ( /\ uz.impl = "main"
    /\ zip.exists
    /\ Includes(zip.comment, Marker)
    /\ Truthy(uz.password)
    /\ ~verifyPassword(uz.password.v, StoredCredential(zip.comment)) )
  => /\ uz.idx = 0
     /\ created = {}
     /\ uz.pc \in { "opening", "done" }
     /\ uz.pc = "done" => uz.status = "rejected" /\ uz.error = IncorrectPasswordError

C4_FallbackEnforcesThePassword ==
  ( /\ uz.impl = "fallback"
    /\ zip.exists
    /\ MainRejects(uz.password, zip) )
  => /\ uz.idx = 0
     /\ created = {}
     /\ uz.pc \in { "opening", "done" }
     /\ uz.pc = "done" => uz.status = "rejected"

C6_CredentialRoundTrip ==
  (cred.pc = "verified" /\ cred.from = "generated")
  => (cred.result <=> cred.attempt = cred.password)

\* C7: a generated credential with one character substituted, inserted or
\* deleted verifies for no password.
C7_TamperedCredentialFails ==
  (cred.pc = "verified" /\ cred.from = "tampered") => ~cred.result

\* the iteration field reads as a positive integer
IterationFieldParses(field) ==
  field # << >> /\ ~parseInt(field).nan /\ parseInt(field).val >= 1

\* C8: verifyPassword answers false whenever the stored string has not exactly
\* four '$'-delimited fields, or another tag than pbkdf2_sha512, or an
\* iteration field that does not parse as a positive integer (an empty one
\* included: no default stands in for it).
C8_MalformedCredentialFails ==
  ( /\ cred.pc = "verified"
    /\ LET parts == Split(cred.stored, Dollar)
       IN  \/ Len(parts) # 4
           \/ parts[1] # Tag
           \/ ~IterationFieldParses(parts[2]) )
  => ~cred.result

FeedbackMessages ==
  { "min8", "min12", "upper", "lower", "digit", "special",
    "repeatedChars", "repeatedSequence" }

C10_ArchiveRoundTrip ==
  ( /\ origin.by = "zip"
    /\ uz.pc = "done"
    /\ uz.fault = "none"
    /\ ~Truthy(origin.password) \/ uz.status = "resolved" )
  => /\ uz.status = "resolved"
     /\ Reproduced

\* a directory with a non-empty file and an empty directory went through zip at
\* level 1 and unzip
C10_Witness ==
  /\ origin.by = "zip"
  /\ uz.pc = "done"
  /\ uz.status = "resolved"
  /\ \E q \in DOMAIN disk : StartsWith(q, Source \o Sep) /\ IsDir(disk, q)
  /\ \E q \in DOMAIN disk : StartsWith(q, Source \o Sep) /\ Len(disk[q].data) > 1
  /\ \E i \in 1..Len(zip.entries) : Len(zip.entries[i].cdata) > 2

\* where entry i of the archive lands
EntryTarget(i) == pathResolve(pathJoin(Root, zip.entries[i].fileName))

\* entry i of the archive is on the disk: its directory, or its file with its
\* bytes
Extracted(i) ==
  /\ Exists(disk, EntryTarget(i))
  /\ IF isDirectoryEntry(zip.entries[i].fileName)
     THEN IsDir(disk, EntryTarget(i))
     ELSE disk[EntryTarget(i)] = FileNode(Inflate(zip.entries[i].cdata))

UnsafeWarning(i) ==
  [level |-> "warn", code |-> 103, msg |-> "Skipping unsafe path: ",
   args |-> << zip.entries[i].fileName >>]

C12_StreamErrorIsFatal ==
  uz.failedAt # 0 => uz.status = "rejected" /\ uz.idx = uz.failedAt

\* C14: zip on a missing source has rejected with 'does not exist', the file at
\* the output path is what it was (an archive that was there keeps its entries,
\* none is created) and nothing was logged; unzip on a missing archive, in
\* either implementation, has rejected with 'does not exist' without opening an
\* archive, reading an entry or creating anything.
C14_MissingInputsFailFirst ==
  /\ (zres.status # "none" /\ ~Exists(disk, Source)) =>
       /\ zres.status = "rejected"
       /\ zres.error = SourceNotFoundError
       /\ zip \in CraftedArchives \cup { NoZip }
       /\ origin.by # "zip"
       /\ \A k \in 1..Len(log) : log[k].code = 103 \/ log[k].msg = "Password verified"
  /\ (uz.pc # "idle" /\ ~zip.exists) =>
       /\ uz.pc = "done"
       /\ uz.status = "rejected"
       /\ uz.error = NotFoundError
       /\ uz.idx = 0
       /\ created = {}
       /\ \A q \in DOMAIN disk : q = Sep \/ UnderSource(q)

\* with neither a source nor an archive on the disk, zip was called and then
\* unzip: both were refused
C14_Witness ==
  /\ zres.status = "rejected"
  /\ uz.status = "rejected"
  /\ uz.error = NotFoundError
  /\ ~zip.exists
  /\ disk = BaseDisk

\* C13: a zip call that ended on a failure (source missing, codec error, error
\* of the output stream, digest failure), in either implementation, has its
\* promise rejected.
C13_ZipFailuresReject ==
  (zc.pc = "done" /\ zc.failure \in { "source", "codec", "io", "hash" })
  => zres.status = "rejected"

\* C15: the fileCount of a resolved zip is the number of entries in the archive;
\* a file source gives one entry and fileCount 1.
C15_FileCountIsEntryCount ==
  (zc.pc = "done" /\ zres.status = "resolved")
  => /\ zres.fileCount = Len(zip.entries)
     /\ ~IsDir(disk, Source) => Len(zip.entries) = 1 /\ zres.fileCount = 1

\* C16: zip of a directory with one ten-byte file and one empty sub-directory,
\* at level 9, with no password and no hash requested, resolves with fileCount
\* 2, hash undefined and a compression ratio that is not negative.
C16_TenByteScenario ==
  ( /\ disk = ScenarioDisk
    /\ zc.levelOption = [some |-> TRUE, v |-> 9]
    /\ zc.password = Undefined
    /\ zc.generateHash = Undefined
    /\ zres.status = "resolved" )
  => /\ zres.fileCount = 2
     /\ zres.hash = Undefined
     /\ zres.compressionRatio >= 0

\* the ratio (in hundredths of a percent) is (total - size) / total * 100 to
\* the nearest hundredth, and 0 for a total of 0
RatioFollowsFormula(ratio, total, size) ==
  IF total = 0 THEN ratio = 0
  ELSE LET diff == ratio * total - (total - size) * 10000
       IN  2 * (IF diff < 0 THEN 0 - diff ELSE diff) <= total

\* C17: the compressionRatio of a resolved zip, in either implementation, is
\* (uncompressed total - size of the written output) / uncompressed total * 100
\* (to the two decimals it is rounded to), and 0 when the uncompressed total of
\* the source is 0.
C17_RatioFormula ==
  (zc.pc = "done" /\ zres.status = "resolved")
  => RatioFollowsFormula(zres.compressionRatio,
                         calculateDirectorySize(disk, Source), zres.size)

\* C18: whatever the compressionLevel option (omitted, 0, negative, above 9, in
\* range), the level archiver is created with is an integer in 1..9, and 9
\* when the option is omitted.
C18_LevelWithinRange ==
  (zc.pc # "idle" /\ zc.failure # "source")
  => /\ zc.level \in 1..9
     /\ ~zc.levelOption.some => zc.level = 9

\* C19: in the main zip the digest is computed exactly when generateHash is
\* given: a resolved call carries the digest of the finished container and the
\* algorithm, or both undefined when none was requested; while the digest is
\* computed the output stream has closed, the queue is empty, the container
\* has its comment, and the promise is still pending.
C19_DigestAfterClose ==
  /\ (zc.impl = "main" /\ zres.status = "resolved") =>
       IF Truthy(zc.generateHash)
       THEN /\ zres.hash = Some([algorithm |-> zc.generateHash.v,
                                 comment |-> zip.comment, entries |-> zip.entries])
            /\ zres.hashAlgorithm = zc.generateHash
            /\ zc.closed
            /\ \E k \in 1..Len(log) : log[k].msg = "Generating hash..."
       ELSE /\ zres.hash = Undefined
            /\ zres.hashAlgorithm = Undefined
            /\ \A k \in 1..Len(log) : log[k].msg # "Generating hash..."
  /\ zc.pc = "hashing" =>
       /\ zc.impl = "main"
       /\ Truthy(zc.generateHash)
       /\ zc.closed
       /\ zc.queue = << >>
       /\ zip.comment = zc.comment
       /\ zres.status = "pending"
  /\ (\E k \in 1..Len(log) : log[k].msg = "Generating hash...") => zc.closed

\* the main zip resolved with the digest of a container that has an entry
C19_Witness ==
  /\ zc.impl = "main"
  /\ zres.status = "resolved"
  /\ zres.hashAlgorithm = Some(Sha256)
  /\ zip.entries # << >>

\* the position of the first call of a kind among the calls on the archiver
\* object, 0 when there is none
CallPosition(calls, kinds) ==
  IF \E i \in 1..Len(calls) : calls[i] \in kinds
  THEN CHOOSE i \in 1..Len(calls) :
         calls[i] \in kinds /\ \A j \in 1..(i - 1) : calls[j] \notin kinds
  ELSE 0

PathChars == { ".", "/", "o", "x" }
\* a path argument: a string, or a value that is no string (undefined)
PathArgs == { Undefined } \cup { Some(t) : t \in StringsUpTo(PathChars, MaxPathLen) }
RootArgs ==
  { Undefined, Some(<< >>), Some(Sep), Some(Root), Some(Root \o Sep), Some(<< "o" >>),
    Some(<< "/", "o", "/", "x" >>), Some(<< "/", "o", "/", ".", "." >>) }

\* path.resolve of an argument: a TypeError for a value that is no string
pathResolveArg(p) ==
  IF p.some THEN [threw |-> FALSE, v |-> pathResolve(p.v)]
  ELSE [threw |-> TRUE, v |-> << >>]

\* SecurityUtils.isPathSafe / SimplZip.isPathSafe as called: the try block
\* around the two path.resolve calls and the comparison, the catch answering
\* false
isPathSafeCall(targetPath, allowedRoot) ==
  IF pathResolveArg(targetPath).threw \/ pathResolveArg(allowedRoot).threw
  THEN [threw |-> FALSE, value |-> FALSE]
  ELSE [threw |-> FALSE, value |-> isPathSafe(targetPath.v, allowedRoot.v)]

LibReady == [pc |-> "ready"]

InitLib ==
  /\ zip = NoZip
  /\ disk = BaseDisk
  /\ origin = [by |-> "none", password |-> Undefined]
  /\ zres = NoResult
  /\ log = << >>
  /\ uz = UnzipIdle
  /\ created = {}
  /\ cred = CredIdle
  /\ zc = ZipIdle
  /\ libcall = LibReady
  /\ rate = RateIdle

\* one call of isPathSafe
callIsPathSafe(targetPath, allowedRoot) ==
  /\ libcall.pc = "ready"
  /\ libcall' = [pc |-> "isPathSafe", targetPath |-> targetPath, allowedRoot |-> allowedRoot,
                 outcome |-> isPathSafeCall(targetPath, allowedRoot)]
  /\ UNCHANGED << disk, zip, origin, zres, log, uz, created, cred, zc, rate >>

\* the progress value reported as the bytes processed so far
progressValue_Bytes(processedBytes, totalSize) == processedBytes

\* Math.round((processedBytes / totalSize) * 100)
progressValue(processedBytes, totalSize) == MathRound(processedBytes * 100, totalSize)

\* CryptoUtils.generateFileHash up to the return of the promise: the read
\* stream is created and statSync gives the size of the file
callGenerateFileHash(totalSize, progressCallback) ==
  /\ libcall.pc = "ready"
  /\ libcall' = [pc |-> "hashing", totalSize |-> totalSize,
                 progressCallback |-> progressCallback, status |-> "pending",
                 processedBytes |-> 0, fileSize |-> 0,
                 chunks |-> << >>, reported |-> << >>, result |-> 0]
  /\ UNCHANGED << disk, zip, origin, zres, log, uz, created, cred, zc, rate >>

\* the 'data' handler of the read stream, for a chunk of n bytes
onHashData(n) ==
  /\ libcall.pc = "hashing"
  /\ libcall.processedBytes + n <= libcall.totalSize
  /\ LET processedBytes == libcall.processedBytes + n
     IN  libcall' = [libcall EXCEPT
                       !.processedBytes = processedBytes,
                       !.fileSize = @ + n,
                       !.chunks = Append(@, n),
                       !.reported = IF libcall.progressCallback /\ libcall.totalSize > 0
                                    THEN Append(@, progressValue(processedBytes,
                                                                 libcall.totalSize))
                                    ELSE @]
  /\ UNCHANGED << disk, zip, origin, zres, log, uz, created, cred, zc, rate >>

\* the 'end' handler of the read stream: the promise resolves with fileSize
onHashEnd ==
  /\ libcall.pc = "hashing"
  /\ libcall.processedBytes = libcall.totalSize
  /\ libcall' = [libcall EXCEPT !.pc = "hashed", !.status = "resolved",
                                !.result = libcall.fileSize]
  /\ UNCHANGED << disk, zip, origin, zres, log, uz, created, cred, zc, rate >>

\* the 'error' handler of the read stream: the promise rejects
onHashError ==
  /\ libcall.pc = "hashing"
  /\ libcall' = [libcall EXCEPT !.pc = "hashed", !.status = "rejected"]
  /\ UNCHANGED << disk, zip, origin, zres, log, uz, created, cred, zc, rate >>

\* two calls of generatePasswordHash with the same three arguments; randomHex1
\* and randomHex2 are what crypto.randomBytes yields in the first and in the
\* second call
callGeneratePasswordHashTwice(password, salt, iterations, randomHex1, randomHex2) ==
  /\ libcall.pc = "ready"
  /\ libcall' = [pc |-> "derived", password |-> password, salt |-> salt,
                 iterations |-> iterations,
                 first |-> generatePasswordHash(password, salt, iterations, randomHex1),
                 second |-> generatePasswordHash(password, salt, iterations, randomHex2)]
  /\ UNCHANGED << disk, zip, origin, zres, log, uz, created, cred, zc, rate >>

MAX_PATH_LENGTH == 260

\* the last position of the character c in s, 0 if none
LastIndexOf(s, c) ==
  LET hits == { i \in 1..Len(s) : s[i] = c }
  IN  IF hits = {} THEN 0 ELSE CHOOSE i \in hits : \A j \in hits : j <= i

\* path.basename(p, ext) of lib/path.js (posix): the last segment, trailing
\* separators ignored, without the suffix ext
pathBasenameExt(p, ext) ==
  LET ends == { i \in 1..Len(p) : p[i] # "/" }
  IN  IF ends = {} THEN << >>
      ELSE LET e == CHOOSE i \in ends : \A j \in ends : j <= i
               st == LastIndexOf(SubSeq(p, 1, e), "/") + 1
               base == SubSeq(p, st, e)
           IN  IF ext # << >> /\ Len(base) > Len(ext)
                  /\ SubSeq(base, Len(base) - Len(ext) + 1, Len(base)) = ext
               THEN SubSeq(base, 1, Len(base) - Len(ext))
               ELSE base

\* path.extname(p) (posix): from the last '.' of the last segment, empty when
\* there is none, when it is the first character, or for '..'
pathExtname(p) ==
  LET base == pathBasenameExt(p, << >>)
      i == LastIndexOf(base, ".")
  IN  IF i <= 1 \/ base = DotDotSeg THEN << >> ELSE SubSeq(base, i, Len(base))

\* path.dirname(p) (posix) of any path
pathDirnameAny(p) ==
  IF p = << >> THEN DotSeg
  ELSE LET hasRoot == p[1] = "/"
           cuts == { i \in 2..Len(p) :
                       p[i] = "/" /\ \E j \in (i + 1)..Len(p) : p[j] # "/" }
       IN  IF cuts = {} THEN (IF hasRoot THEN Sep ELSE DotSeg)
           ELSE LET i == CHOOSE c \in cuts : \A d \in cuts : d <= c
                IN  IF hasRoot /\ i = 2 THEN << "/", "/" >> ELSE SubSeq(p, 1, i - 1)

\* String.prototype.substring(0, n)
Substring0(str, n) ==
  SubSeq(str, 1, IF n < 0 THEN 0 ELSE IF n > Len(str) THEN Len(str) ELSE n)

\* SecurityUtils.sanitizePath
sanitizePath(filePath) ==
  LET stripped == SelectSeq(filePath, LAMBDA c : c \notin ControlChars)
      normalized == pathNormalize(stripped)
      noDots == Concat(Split(normalized, DotDotSeg))
      noLead == IF noDots # << >> /\ Head(noDots) \in { "/", "\\" }
                THEN Tail(noDots) ELSE noDots
  IN  IF Len(noLead) > MAX_PATH_LENGTH
      THEN LET ext == pathExtname(noLead)
               base == pathBasenameExt(noLead, ext)
               dir == pathDirnameAny(noLead)
               maxBase == MAX_PATH_LENGTH - Len(dir) - Len(ext) - 1
           IN  pathJoin(dir, Substring0(base, maxBase) \o ext)
      ELSE noLead

SanChars == { ".", "/", "\\", "x", "\t" }
\* n times the character c
Repeat(c, n) == [i \in 1..n |-> c]
\* paths longer than MAX_PATH_LENGTH: a long name, a long name with an
\* extension, a long extension, a long directory
LongPaths ==
  { Repeat("x", MAX_PATH_LENGTH + 1),
    Repeat("x", MAX_PATH_LENGTH) \o << ".", "o" >>,
    << "d", "/" >> \o Repeat("x", MAX_PATH_LENGTH),
    << "x", "." >> \o Repeat("o", MAX_PATH_LENGTH),
    Repeat("d", MAX_PATH_LENGTH) \o << "/", "x" >> }
\* traversal attempts
TraversalPaths ==
  { << ".", ".", "/", ".", ".", "/", "x" >>, << "/", ".", ".", "\\", "x" >> }
SanitizeInputs == StringsUpTo(SanChars, MaxSanLen) \cup LongPaths \cup TraversalPaths

\* one call of sanitizePath, and a second call on its result
callSanitizePath(filePath) ==
  /\ libcall.pc = "ready"
  /\ LET result == sanitizePath(filePath)
     IN  libcall' = [pc |-> "sanitized", filePath |-> filePath,
                     result |-> result, again |-> sanitizePath(result)]
  /\ UNCHANGED << disk, zip, origin, zres, log, uz, created, cred, zc, rate >>

\* CryptoUtils.generateHMAC(data, key): createHmac('sha256', key).update(data)
\* .digest('hex'), idealised as a collision-free lower-case hex string whose
\* length is the same for all data and keys of one length
generateHMAC(data, key) == EncodeString(key) \o << "f", "f" >> \o EncodeString(data)

\* Buffer.from(str, 'hex'): one byte per pair of hex digits, up to the first
\* pair that is none; a single trailing digit is dropped
RECURSIVE BufferFromHex(_)
BufferFromHex(str) ==
  IF Len(str) >= 2 /\ DigitValue(str[1], 16) >= 0 /\ DigitValue(str[2], 16) >= 0
  THEN << 16 * DigitValue(str[1], 16) + DigitValue(str[2], 16) >>
       \o BufferFromHex(SubSeq(str, 3, Len(str)))
  ELSE << >>

\* crypto.timingSafeEqual(a, b): a RangeError when the byte lengths differ
timingSafeEqual(a, b) ==
  IF Len(a) # Len(b) THEN [threw |-> TRUE, value |-> FALSE]
  ELSE [threw |-> FALSE, value |-> a = b]

\* CryptoUtils.verifyHMAC(data, key, expectedHMAC)
verifyHMAC(data, key, expectedHMAC) ==
  LET calculatedHMAC == generateHMAC(data, key)
  IN  timingSafeEqual(BufferFromHex(calculatedHMAC), BufferFromHex(expectedHMAC))

HmacDatas == { << "x" >>, << "o" >> }
HmacKeys == { << "a" >>, << "b" >> }
\* the expected values tried against the HMAC h: h itself, in upper case, the
\* HMAC of other inputs, h with a digit changed, cut short, extended, followed
\* or preceded by characters that are no hex digits, and the empty string
ExpectedHMACs(h) ==
  { h, toUpperCase(h), << >>,
    [h EXCEPT ![Len(h)] = IF h[Len(h)] = "0" THEN "1" ELSE "0"],
    SubSeq(h, 1, Len(h) - 2), SubSeq(h, 1, Len(h) - 1),
    h \o << "0", "0" >>, h \o << "f" >>, h \o << "x", "x" >>,
    << "x" >> \o h, [h EXCEPT ![1] = "x"] }
  \cup { generateHMAC(d, k) : d \in HmacDatas, k \in HmacKeys }

\* one call of verifyHMAC
callVerifyHMAC(data, key, expectedHMAC) ==
  /\ libcall.pc = "ready"
  /\ libcall' = [pc |-> "verified", data |-> data, key |-> key,
                 expectedHMAC |-> expectedHMAC,
                 outcome |-> verifyHMAC(data, key, expectedHMAC)]
  /\ UNCHANGED << disk, zip, origin, zres, log, uz, created, cred, zc, rate >>

NextLib ==
  \/ \E t \in PathArgs, r \in RootArgs : callIsPathSafe(t, r)
  \/ \E data \in HmacDatas, key \in HmacKeys :
       \E expectedHMAC \in ExpectedHMACs(generateHMAC(data, key)) :
         callVerifyHMAC(data, key, expectedHMAC)
  \/ \E filePath \in SanitizeInputs : callSanitizePath(filePath)
  \/ \E pw \in CredPasswords, salt \in CredSalts, it \in CredIterations,
        rh1 \in RandomHexes, rh2 \in RandomHexes :
          callGeneratePasswordHashTwice(pw, salt, it, rh1, rh2)
  \/ \E n \in 0..MaxFileSize, cb \in BOOLEAN : callGenerateFileHash(n, cb)
  \/ \E n \in 1..MaxChunk : onHashData(n)
  \/ onHashEnd
  \/ onHashError

SpecLib == InitLib /\ [][NextLib]_vars

\* the segments of a resolved path
Segments(p) == SelectSeq(Split(p, Sep), LAMBDA x : x # << >>)

\* C21: a call of isPathSafe does not throw and changes nothing; it answers
\* false when an argument is no string; it answers true only if the resolved
\* candidate equals the resolved root or begins with the resolved root followed
\* by a separator, so that the segments of the root are the leading segments of
\* the candidate; a candidate that has the root as a string prefix followed by
\* another character is refused.
C21_PathPredicate ==
  libcall.pc = "isPathSafe" =>
    LET t == libcall.targetPath
        r == libcall.allowedRoot
        out == libcall.outcome
    IN  /\ ~out.threw
        /\ out.value \in BOOLEAN
        /\ disk = BaseDisk /\ created = {} /\ log = << >>
        /\ (~t.some \/ ~r.some) => ~out.value
        /\ (t.some /\ r.some /\ out.value) =>
             LET rt == pathResolve(t.v)
                 rr == pathResolve(r.v)
             IN  /\ \/ rt = rr
                    \/ /\ Len(rt) > Len(rr) + 1
                       /\ SubSeq(rt, 1, Len(rr)) = rr
                       /\ rt[Len(rr) + 1] = "/"
                 /\ Len(Segments(rr)) <= Len(Segments(rt))
                 /\ SubSeq(Segments(rt), 1, Len(Segments(rr))) = Segments(rr)
        /\ (t.some /\ r.some) =>
             LET rt == pathResolve(t.v)
                 rr == pathResolve(r.v)
             IN  (Len(rt) > Len(rr) /\ SubSeq(rt, 1, Len(rr)) = rr /\ rt[Len(rr) + 1] # "/")
                   => ~out.value

\* isPathSafe refused the sibling /ox of the root /o, which shares the root as
\* a string prefix
C21_Witness ==
  /\ libcall.pc = "isPathSafe"
  /\ libcall.targetPath = Some(<< "/", "o", "x" >>)
  /\ libcall.allowedRoot = Some(Root)
  /\ ~libcall.outcome.value

\* C23: while a file of non-zero size is hashed with a progress callback, every
\* value reported is an integer of 0..100, the values never decrease, one value
\* is reported per chunk, and when the promise resolves the last value is 100
\* and the fileSize returned is the sum of the lengths of the chunks.
C23_ProgressReports ==
  (libcall.pc \in { "hashing", "hashed" } /\ libcall.totalSize > 0
     /\ libcall.progressCallback) =>
    LET reported == libcall.reported
    IN  /\ \A i \in 1..Len(reported) : reported[i] \in 0..100
        /\ \A i \in 1..(Len(reported) - 1) : reported[i] <= reported[i + 1]
        /\ Len(reported) = Len(libcall.chunks)
        /\ libcall.status = "resolved" =>
             /\ reported # << >>
             /\ reported[Len(reported)] = 100
             /\ libcall.result = SumSeq(libcall.chunks)

\* a file was hashed in three chunks and the promise resolved
C23_Witness ==
  /\ libcall.pc = "hashed"
  /\ libcall.status = "resolved"
  /\ libcall.progressCallback
  /\ Len(libcall.chunks) = 3
  /\ libcall.reported[1] < libcall.reported[2]

(***************************************************************************)
(* SecurityUtils.checkRateLimit: calls for two operation names under one   *)
(* maxOps and windowMs, while the clock advances.                          *)
(***************************************************************************)
Operations == { "zip", "unzip" }
\* operationCounts.get(key) of a key that was never set
NoRecord == [present |-> FALSE, count |-> 0, resetTime |-> 0]

\* checkRateLimit refusing only above maxOps
checkRateLimit_OffByOne(operationCounts, operation, maxOps, windowMs, now) ==
  LET stored == operationCounts[operation]
      record == IF ~stored.present \/ now > stored.resetTime
                THEN [present |-> TRUE, count |-> 0, resetTime |-> now + windowMs]
                ELSE stored
  IN  IF record.count > maxOps
      THEN [value |-> FALSE, operationCounts |-> [operationCounts EXCEPT ![operation] = record]]
      ELSE [value |-> TRUE,
            operationCounts |-> [operationCounts EXCEPT
                                   ![operation] = [record EXCEPT !.count = @ + 1]]]

\* SecurityUtils.checkRateLimit(operation, maxOps, windowMs) at the time now:
\* the value returned and the map afterwards. The key is operation_pid, one
\* key per operation name in a process
checkRateLimit(operationCounts, operation, maxOps, windowMs, now) ==
  LET stored == operationCounts[operation]
      record == IF ~stored.present \/ now > stored.resetTime
                THEN [present |-> TRUE, count |-> 0, resetTime |-> now + windowMs]
                ELSE stored
  IN  IF record.count >= maxOps
      THEN [value |-> FALSE, operationCounts |-> [operationCounts EXCEPT ![operation] = record]]
      ELSE [value |-> TRUE,
            operationCounts |-> [operationCounts EXCEPT
                                   ![operation] = [record EXCEPT !.count = @ + 1]]]

InitRate ==
  /\ zip = NoZip
  /\ disk = BaseDisk
  /\ origin = [by |-> "none", password |-> Undefined]
  /\ zres = NoResult
  /\ log = << >>
  /\ uz = UnzipIdle
  /\ created = {}
  /\ cred = CredIdle
  /\ zc = ZipIdle
  /\ libcall = CallIdle
  /\ \E maxOps \in 0..MaxOps, windowMs \in 0..MaxWindowMs :
       rate = [pc |-> "on", maxOps |-> maxOps, windowMs |-> windowMs, now |-> 0,
               operationCounts |-> [o \in Operations |-> NoRecord],
               before |-> [o \in Operations |-> NoRecord],
               calls |-> << >>]

\* Date.now() advances
Tick ==
  /\ rate.pc = "on"
  /\ rate.now < MaxTime
  /\ rate' = [rate EXCEPT !.now = @ + 1]
  /\ UNCHANGED << disk, zip, origin, zres, log, uz, created, cred, zc, libcall >>

\* one call of checkRateLimit
callCheckRateLimit(operation) ==
  /\ rate.pc = "on"
  /\ Len(rate.calls) < MaxCalls
  /\ LET r == checkRateLimit(rate.operationCounts, operation, rate.maxOps, rate.windowMs,
                             rate.now)
     IN  rate' = [rate EXCEPT
                    !.operationCounts = r.operationCounts,
                    !.before = rate.operationCounts,
                    !.calls = Append(@, [operation |-> operation, now |-> rate.now,
                                         value |-> r.value])]
  /\ UNCHANGED << disk, zip, origin, zres, log, uz, created, cred, zc, libcall >>

NextRate ==
  \/ Tick
  \/ \E operation \in Operations : callCheckRateLimit(operation)

SpecRate == InitRate /\ [][NextRate]_vars

\* the calls of an operation that were accepted from the time from on
AcceptedSince(operation, from) ==
  { i \in 1..Len(rate.calls) :
      /\ rate.calls[i].operation = operation
      /\ rate.calls[i].value
      /\ rate.calls[i].now >= from }

\* C27: for each operation, the calls accepted in the window of its record,
\* from the time the record was made until its reset time, are as many as the
\* stored count and at most maxOps; the stored count never exceeds maxOps; a
\* call for one operation leaves the record of every other operation as it was.
C27_RateLimitBound ==
  rate.pc = "on" =>
    /\ \A o \in Operations :
         LET record == rate.operationCounts[o]
         IN  /\ record.count <= rate.maxOps
             /\ record.present =>
                  /\ Cardinality(AcceptedSince(o, record.resetTime - rate.windowMs))
                       = record.count
                  /\ Cardinality(AcceptedSince(o, record.resetTime - rate.windowMs))
                       <= rate.maxOps
    /\ rate.calls # << >> =>
         \A o \in Operations \ { rate.calls[Len(rate.calls)].operation } :
           rate.operationCounts[o] = rate.before[o]

\* with maxOps 1, a call was accepted, the next call of the operation in the
\* same window was refused, and a call for the other operation was then accepted
C27_Witness ==
  /\ rate.pc = "on"
  /\ rate.maxOps = 1
  /\ Len(rate.calls) = 3
  /\ rate.calls[1].operation = "zip" /\ rate.calls[1].value
  /\ rate.calls[2].operation = "zip" /\ ~rate.calls[2].value
  /\ rate.calls[3].operation = "unzip" /\ rate.calls[3].value

\* C28: a call that is refused leaves the count and reset time stored for its
\* operation unchanged; with maxOps >= 1, a call made after the reset time of
\* the record of its operation is accepted and leaves a record of count 1.
C28_RateLimitRecovery ==
  (rate.pc = "on" /\ rate.calls # << >>) =>
    LET last == rate.calls[Len(rate.calls)]
        old == rate.before[last.operation]
        new == rate.operationCounts[last.operation]
    IN  /\ (~last.value /\ old.present) =>
             new.count = old.count /\ new.resetTime = old.resetTime
        /\ (rate.maxOps >= 1 /\ old.present /\ last.now > old.resetTime) =>
             /\ last.value
             /\ new.count = 1
             /\ new.resetTime = last.now + rate.windowMs

\* C22: no path with a control character is created or written by unzip: an
\* entry whose name carries one is refused by the path check.
C22_ControlCharactersRejected ==
  \A p \in created : \A i \in 1..Len(p) : p[i] \notin ControlChars

\* C24: two calls of generatePasswordHash with the same password, the same salt
\* string and the same iterations return the same string.
C24_DerivationDeterministic ==
  (libcall.pc = "derived" /\ libcall.salt.some) =>
    libcall.first = libcall.second

\* C29: the result of sanitizePath holds no '..', does not begin with '/' or
\* '\', holds no control character and is at most 260 characters long, and
\* sanitizePath leaves its own result unchanged.
C29_SanitizedPath ==
  libcall.pc = "sanitized" =>
    LET result == libcall.result
    IN  /\ ~Includes(result, DotDotSeg)
        /\ result # << >> => Head(result) \notin { "/", "\\" }
        /\ \A i \in 1..Len(result) : result[i] \notin ControlChars
        /\ Len(result) <= MAX_PATH_LENGTH
        /\ libcall.again = result

\* C30: a call of verifyHMAC does not throw, and it answers true exactly when
\* the expected string is the hex HMAC of the data under the key (in either
\* case of the hex digits).
C30_VerifyHMACTotal ==
  libcall.pc = "verified" =>
    /\ ~libcall.outcome.threw
    /\ libcall.outcome.value <=>
         (toUpperCase(libcall.expectedHMAC)
            = toUpperCase(generateHMAC(libcall.data, libcall.key)))

\* C25: entries are handled one at a time: at most one write stream is open;
\* every entry was delivered against a request, and at most one request is
\* ahead of the entries delivered; a request is ahead only when no stream of the
\* current entry is open or being opened; a resolved unzip has taken every
\* entry, one request per entry after the first readEntry, and every file is
\* closed.
C25_OneEntryAtATime ==
  /\ uz.openFiles \in { 0, 1 }
  /\ uz.idx <= uz.requested
  /\ uz.requested <= uz.idx + 1
  /\ uz.requested = uz.idx + 1 => uz.openFiles = 0 /\ uz.pc \in { "reading", "done" }
  /\ uz.pc \in { "stream", "writing" } => uz.requested = uz.idx
  /\ uz.pc = "reading" => uz.requested = uz.idx + 1
  /\ uz.pc = "writing" => uz.openFiles = 1
  /\ uz.status = "resolved" =>
       /\ uz.openFiles = 0
       /\ uz.idx = Len(zip.entries)
       /\ uz.requested = Len(zip.entries) + 1

\* an archive of two file entries was extracted and unzip resolved
C25_Witness ==
  /\ uz.status = "resolved"
  /\ Len(zip.entries) = 2
  /\ \A i \in 1..2 : ~isDirectoryEntry(zip.entries[i].fileName) /\ InsideRoot(EntryTarget(i))
  /\ uz.requested = 3

\* C26: every unzip call settles: once the call has come to its end, with no
\* callback of yauzl or of a stream left to be delivered, its promise is
\* resolved or rejected.
C26_UnzipSettles ==
  uz.pc = "done" => uz.status \in { "resolved", "rejected" }

====
